---- MODULE Spec2Model ----
(***************************************************************************)
(* Model of the Slack QA bots of this repository:                          *)
(*   extra.py   file-upload bot  (handle_message loops over the wav files  *)
(*              of a message: marker, download, chunked transcription,     *)
(*              analysis, grade reactions, threaded reply, cleanup)        *)
(*   qa_bot.py  URL bot (handle_message -> process_wav_url on the first    *)
(*              wav URL of the message text, ANALYZE_ONLY toggle)          *)
(* Handlers run on the listener's worker threads; the threads share only   *)
(* the temp directory (fs).  External collaborators (Slack, HTTP, speech   *)
(* recognition, text generation, tempfile) return or raise                 *)
(* nondeterministically.                                                   *)
(***************************************************************************)
EXTENDS Integers, Sequences, FiniteSets, TLC

\* ------------------------------------------------------------------ bounds
NThreads == 2
NPaths == 2
MaxFiles == 2
MaxRefs == 2
MaxTextLen == 3
MaxChunks == 3
MaxFrags == 4
MaxHist == 2

\* --------------------------------------------------------------- constants
\* qa_bot.py: len(transcript.strip()) < 10
MIN_USABLE_LEN == 10

Threads == 1..NThreads
Paths == 1..NPaths
NoPath == 0
NoOwner == 0
Channels == {"C0", "C1"}
ChannelConfigs == {"", "C0"}
Programs == {"extra", "qa_bot"}

\* Unicode code points that occur in the glyph tables, and "tx" for any
\* other character.  HV is U+2764, AR is U+2197, VS is U+FE0F.
CodePoints == {"GH", "YH", "OH", "HV", "VS", "RG", "AR", "FI", "EA", "XM", "tx"}

GRADE_EMOJI_MAP_extra ==
    << <<(<<"GH">>), "green_heart">>,
       <<(<<"YH">>), "yellow_heart">>,
       <<(<<"OH">>), "orange_heart">>,
       <<(<<"HV", "VS">>), "heart">>,
       <<(<<"RG">>), "rage">>,
       <<(<<"AR", "VS">>), "arrow_upper_right">> >>

\* Variant: qa_bot.py keeps the table of extra.py.
GRADE_EMOJI_MAP_qa_bot_old ==
    << <<(<<"GH">>), "green_heart">>,
       <<(<<"YH">>), "yellow_heart">>,
       <<(<<"OH">>), "orange_heart">>,
       <<(<<"HV", "VS">>), "heart">>,
       <<(<<"RG">>), "rage">>,
       <<(<<"AR", "VS">>), "arrow_upper_right">> >>

GRADE_EMOJI_MAP_qa_bot ==
    << <<(<<"AR", "VS">>), "arrow_upper_right">>,
       <<(<<"GH">>), "green_heart">>,
       <<(<<"FI">>), "fire">>,
       <<(<<"YH">>), "yellow_heart">>,
       <<(<<"OH">>), "orange_heart">>,
       <<(<<"HV", "VS">>), "heart">>,
       <<(<<"RG">>), "rage">>,
       <<(<<"EA">>), "ear_with_hearing_aid">>,
       <<(<<"XM">>), "x">> >>

GRADE_EMOJI_MAP(prog) ==
    IF prog = "extra" THEN GRADE_EMOJI_MAP_extra ELSE GRADE_EMOJI_MAP_qa_bot

\* The glyphs QA_PROMPT_TEMPLATE tells the model to emit: in extra.py the
\* five grade icons and the hand-off icon, in qa_bot.py the six grades, the
\* two flags (fire, ear) and the "cannot evaluate" cross.
QA_PROMPT_TEMPLATE_extra ==
    { <<"GH">>, <<"YH">>, <<"OH">>, <<"HV", "VS">>, <<"RG">>, <<"AR", "VS">> }

QA_PROMPT_TEMPLATE_qa_bot ==
    { <<"AR", "VS">>, <<"GH">>, <<"FI">>, <<"YH">>, <<"OH">>, <<"HV", "VS">>,
      <<"RG">>, <<"EA">>, <<"XM">> }

QA_PROMPT_TEMPLATE(prog) ==
    IF prog = "extra" THEN QA_PROMPT_TEMPLATE_extra ELSE QA_PROMPT_TEMPLATE_qa_bot

\* Variant: the icon is looked for at the start of the text only.
IconIn_prefix(icon, analysis) ==
    Len(icon) <= Len(analysis) /\ SubSeq(analysis, 1, Len(icon)) = icon

\* Python's `icon in analysis`: icon occurs as a contiguous substring.
IconIn(icon, analysis) ==
    \E i \in 1..(Len(analysis) - Len(icon) + 1) :
        SubSeq(analysis, i, i + Len(icon) - 1) = icon

RECURSIVE ExtractLoop(_, _, _)
ExtractLoop(items, analysis, found) ==
    IF items = << >> THEN found
    ELSE ExtractLoop(Tail(items), analysis,
                     IF IconIn(Head(items)[1], analysis)
                     THEN Append(found, Head(items)[2])
                     ELSE found)

\* Variant: the text is scanned character by character, so a label is
\* appended for every occurrence of its glyph.
extract_per_occurrence(analysis, prog) ==
    LET table == GRADE_EMOJI_MAP(prog)
        hit(c) == { k \in DOMAIN table : table[k][1] = << c >> }
        label(c) == IF hit(c) = {} THEN "" ELSE table[CHOOSE k \in hit(c) : TRUE][2]
    IN SelectSeq([i \in DOMAIN analysis |-> label(analysis[i])],
                 LAMBDA x : x # "")

extract_grade_emojis(analysis, prog) ==
    ExtractLoop(GRADE_EMOJI_MAP(prog), analysis, << >>)

\* ------------------------------------------------------------------- state
VARIABLES
    program,        \* which script runs: "extra" (extra.py) or "qa_bot" (qa_bot.py)
    ANALYZE_ONLY,   \* qa_bot.py operating mode toggle
    QA_CHANNEL_ID,  \* optional channel restriction ("" = listen everywhere)
    workers,        \* listener threads that events are dispatched to
    phase,          \* __main__: "init", "startup" (replay called), "live" (listener started)
    observe,        \* whether the observation variables log and msg are recorded
    fs,             \* temp directory: path -> thread whose run created the file
    pc,             \* per thread: position in the handler
    wav_files,      \* extra.py: wav files of the message not yet finished
    wav_urls,       \* qa_bot.py: URLs extracted from the message text
    wav_url,        \* qa_bot.py: the URL process_wav_url was called with
    messages,       \* qa_bot.py: the history fetched by process_latest_message
    reply_cap,      \* qa_bot.py: say and client were passed to process_wav_url
    tmp_path,       \* local tmp_path (NoPath: unbound / None)
    transcript,     \* local transcript, by its length (NoText: not yet set)
    analysis,       \* local analysis text (sequence of code points)
    grade_emojis,   \* labels of the reaction loop still to be attempted
    exc,            \* an exception is propagating out of the except block
    ret,            \* how the last handler invocation ended
    log,            \* observation: the calls of the current run, in order, with outcome
    msg,            \* observation: per message, successful calls counted (0, 1, 2 = more)
    g_text,         \* grade extractor on its own: the analysis text given
    g_found,        \* grade extractor on its own: the list returned
    t_chunks,       \* chunked transcriber on its own: recognizer outcome per chunk
    t_out,          \* chunked transcriber on its own: result of extra.py and of main.py
    u_text,         \* URL extractor on its own: the message text given
    u_urls          \* URL extractor on its own: the list returned

gvars == <<g_text, g_found, t_chunks, t_out, u_text, u_urls>>
confvars == <<program, ANALYZE_ONLY, QA_CHANNEL_ID, workers, observe, gvars>>
cfgvars == <<confvars, phase>>
handlervars == <<program, ANALYZE_ONLY, QA_CHANNEL_ID, workers, phase, observe, fs, pc,
                 wav_files, wav_urls, wav_url, messages, reply_cap, tmp_path,
                 transcript, analysis, grade_emojis, exc, ret, log, msg>>
locals == <<wav_files, wav_urls, wav_url, messages, reply_cap, tmp_path,
            transcript, analysis, grade_emojis, exc>>
vars == <<program, ANALYZE_ONLY, QA_CHANNEL_ID, workers, phase, observe, fs, pc,
          wav_files, wav_urls, wav_url, messages, reply_cap, tmp_path, transcript,
          analysis, grade_emojis, exc, ret, log, msg, g_text, g_found, t_chunks, t_out,
          u_text, u_urls>>

NoText == -1
TranscriptLens == {0, MIN_USABLE_LEN - 1, MIN_USABLE_LEN}

\* Responses of the text-generation service used in the pipeline runs: no
\* known glyph (a heart without its variation selector), one glyph that
\* occurs twice, two glyphs.
AnalysisTexts ==
    { <<"HV", "tx">>,
      <<"YH", "YH">>,
      <<"HV", "VS", "AR", "VS">> }

HOURGLASS == "hourglass_flowing_sand"

Labels ==
    { GRADE_EMOJI_MAP_extra[i][2] : i \in DOMAIN GRADE_EMOJI_MAP_extra }
    \cup { GRADE_EMOJI_MAP_qa_bot[i][2] : i \in DOMAIN GRADE_EMOJI_MAP_qa_bot }

\* A file of the event: named *.wav, or of mimetype audio/wav, or neither;
\* with or without a download URL.
FileInfos ==
    { f \in [name_wav : BOOLEAN, mime_wav : BOOLEAN, has_url : BOOLEAN] :
        /\ ~(f.name_wav /\ f.mime_wav)
        /\ (f.name_wav \/ f.mime_wav \/ f.has_url) }
FileLists == UNION { [1..n -> FileInfos] : n \in 0..MaxFiles }

\* Variant: the filter lets every file of the event through.
RECURSIVE WavFilter_all(_, _)
WavFilter_all(files, i) ==
    IF i > Len(files) THEN << >>
    ELSE << [name |-> i, has_url |-> files[i].has_url,
             wav |-> files[i].name_wav \/ files[i].mime_wav] >>
         \o WavFilter_all(files, i + 1)

\* extra.py: wav_files = [f for f in files if name ends with .wav or
\* mimetype == "audio/wav"]; a file is named by its position in the event
\* and keeps whether it is a wav file and whether it has a download URL.
RECURSIVE WavFilter(_, _)
WavFilter(files, i) ==
    IF i > Len(files) THEN << >>
    ELSE (IF files[i].name_wav \/ files[i].mime_wav
          THEN << [name |-> i, has_url |-> files[i].has_url, wav |-> TRUE] >>
          ELSE << >>) \o WavFilter(files, i + 1)

Call(o, a, k) == [op |-> o, arg |-> a, ok |-> k]

MsgKeys == {"say", HOURGLASS} \cup Labels
NoMsg == [k \in MsgKeys |-> 0]
More(n) == IF n < 2 THEN n + 1 ELSE 2

\* Observation of one call of the run: op(arg) returned (ok) or raised.
Step(p, o, a, ok) ==
    /\ log' = [log EXCEPT ![p] = IF observe THEN Append(@, Call(o, a, ok)) ELSE @]
    /\ msg' = [msg EXCEPT ![p] =
                 IF observe /\ ok /\ o \in {"say", "reactions_add"}
                 THEN [@ EXCEPT ![IF o = "say" THEN "say" ELSE a] = More(@)]
                 ELSE @]

NotRun == << "not run" >>
NoUrl == << >>

\* Variant: the last URL of the list is passed on.
PickUrl_last(urls) == IF urls = << >> THEN NoUrl ELSE urls[Len(urls)]

\* wav_urls[0], once the list is known to be non-empty.
PickUrl(urls) == IF urls = << >> THEN NoUrl ELSE urls[1]
TextsUpTo(n) == UNION { [1..k -> CodePoints] : k \in 0..n }

InitWith(w, o, chans, texts, chunks, mtexts) ==
    /\ program \in Programs
    /\ g_text \in texts
    /\ g_found = NotRun
    /\ t_chunks \in chunks
    /\ t_out = [extra |-> NotRun, main |-> NotRun, extra_next |-> "", main_next |-> ""]
    /\ u_text \in mtexts
    /\ u_urls = NotRun
    /\ ANALYZE_ONLY \in (IF program = "extra" THEN {FALSE} ELSE BOOLEAN)
    /\ QA_CHANNEL_ID \in chans
    /\ workers = w
    /\ phase = "init"
    /\ observe = o
    /\ fs = [x \in Paths |-> NoOwner]
    /\ pc = [p \in Threads |-> "idle"]
    /\ wav_files = [p \in Threads |-> << >>]
    /\ wav_urls = [p \in Threads |-> << >>]
    /\ wav_url = [p \in Threads |-> NoUrl]
    /\ messages = << >>
    /\ reply_cap = [p \in Threads |-> FALSE]
    /\ tmp_path = [p \in Threads |-> NoPath]
    /\ transcript = [p \in Threads |-> NoText]
    /\ analysis = [p \in Threads |-> << >>]
    /\ grade_emojis = [p \in Threads |-> << >>]
    /\ exc = [p \in Threads |-> FALSE]
    /\ ret = [p \in Threads |-> "none"]
    /\ log = [p \in Threads |-> << >>]
    /\ msg = [p \in Threads |-> NoMsg]

\* One event at a time, every call observed.
Init == InitWith({1}, TRUE, ChannelConfigs, {<< >>}, {<< >>}, {<< >>})

\* Events dispatched to all the listener's threads at once, no channel
\* restriction configured.
InitConc == InitWith(Threads, FALSE, {""}, {<< >>}, {<< >>}, {<< >>})

\* No event: the grade extractor applied to every text up to MaxTextLen.
InitGrade == InitWith({}, FALSE, {""}, TextsUpTo(MaxTextLen), {<< >>}, {<< >>})

\* A new run starts: the locals of the previous one are overwritten.
NewRun(p) ==
    /\ log' = [log EXCEPT ![p] = << >>]
    /\ transcript' = [transcript EXCEPT ![p] = NoText]
    /\ analysis' = [analysis EXCEPT ![p] = << >>]
    /\ grade_emojis' = [grade_emojis EXCEPT ![p] = << >>]

\* ---------------------------------------------------- extra.py handle_message
\* Lines 271-276: __main__ starts the listener.
X_Main ==
    /\ program = "extra"
    /\ phase = "init"
    /\ phase' = "live"
    /\ UNCHANGED <<confvars, fs, pc, locals, ret, log, msg>>

\* Lines 172-190: a new event; locals are fresh, the filters may return.
X_Receive(p) ==
    /\ program = "extra"
    /\ phase = "live"
    /\ p \in workers
    /\ pc[p] = "idle"
    /\ \E channel \in Channels, wavs \in { WavFilter(files, 1) : files \in FileLists } :
         LET miss == QA_CHANNEL_ID # "" /\ channel # QA_CHANNEL_ID
         IN /\ wav_files' = [wav_files EXCEPT ![p] = IF miss THEN << >> ELSE wavs]
            /\ pc' = [pc EXCEPT ![p] = IF miss \/ wavs = << >> THEN "idle" ELSE "for"]
            /\ ret' = [ret EXCEPT ![p] = IF miss \/ wavs = << >> THEN "return" ELSE "none"]
    /\ tmp_path' = [tmp_path EXCEPT ![p] = NoPath]
    /\ NewRun(p)
    /\ msg' = [msg EXCEPT ![p] = NoMsg]
    /\ UNCHANGED <<cfgvars, fs, wav_urls, wav_url, messages, reply_cap, exc>>

\* Lines 192-200: loop head; a file without download URL is skipped; after
\* the last file the handler returns.
X_For(p) ==
    /\ program = "extra"
    /\ pc[p] = "for"
    /\ IF wav_files[p] = << >>
       THEN /\ pc' = [pc EXCEPT ![p] = "idle"]
            /\ ret' = [ret EXCEPT ![p] = "return"]
            /\ tmp_path' = [tmp_path EXCEPT ![p] = NoPath]
            /\ UNCHANGED <<wav_files, log, transcript, analysis, grade_emojis>>
       ELSE IF ~Head(wav_files[p]).has_url
       THEN /\ wav_files' = [wav_files EXCEPT ![p] = Tail(@)]
            /\ UNCHANGED <<pc, ret, tmp_path, log, transcript, analysis, grade_emojis>>
       ELSE /\ pc' = [pc EXCEPT ![p] = "ack"]
            /\ NewRun(p)
            /\ UNCHANGED <<wav_files, ret, tmp_path>>
    /\ UNCHANGED <<cfgvars, fs, wav_urls, wav_url, messages, reply_cap, exc, msg>>

\* Lines 203-206: the hourglass marker, best effort.
X_Ack(p) ==
    /\ program = "extra"
    /\ pc[p] = "ack"
    /\ pc' = [pc EXCEPT ![p] = "mktemp"]
    /\ \E ok \in BOOLEAN : Step(p, "reactions_add", HOURGLASS, ok)
    /\ UNCHANGED <<cfgvars, fs, locals, ret>>

\* NamedTemporaryFile(suffix=".wav", delete=False): creates a file under a
\* name that does not exist at that moment.
CreateTemp(p, path) ==
    /\ fs[path] = NoOwner
    /\ fs' = [fs EXCEPT ![path] = p]
    /\ tmp_path' = [tmp_path EXCEPT ![p] = path]

\* Variant: the exception is swallowed and the run goes on to the reply.
OnError_swallowed == "reply"

\* Variant: a bare `except: pass`, the failure path is not run.
OnError_silent == "unlink"

\* Variant: the try block is run again after an exception.
OnError_retry == "mktemp"

\* Where an exception raised inside the try block goes.
OnError == "except"

\* Lines 210-211.
X_MkTemp(p) ==
    /\ program = "extra"
    /\ pc[p] = "mktemp"
    /\ \/ /\ \E path \in Paths : CreateTemp(p, path)
          /\ Step(p, "NamedTemporaryFile", "", TRUE)
          /\ pc' = [pc EXCEPT ![p] = "download"]
       \/ /\ Step(p, "NamedTemporaryFile", "", FALSE)
          /\ pc' = [pc EXCEPT ![p] = OnError]
          /\ UNCHANGED <<fs, tmp_path>>
    /\ UNCHANGED <<cfgvars, wav_files, wav_urls, wav_url, messages, reply_cap, transcript,
                   analysis, grade_emojis, exc, ret>>

\* download_slack_file / download_wav: after the GET and raise_for_status,
\* open(dest_path, "wb") and write: creates the file when it is missing.
DownloadWrite(p) ==
    fs' = [fs EXCEPT ![tmp_path[p]] = IF @ = NoOwner THEN p ELSE @]

\* Variant: the HTTP status is not checked, the run goes on.
OnDownloadError_ignored == "transcribe"

\* Variant: the GET is issued again after a failure.
OnDownloadError_retry == "download"

\* Where a failed download (requests.get or raise_for_status raising) goes.
OnDownloadError == OnError

\* Line 212.
X_Download(p) ==
    /\ program = "extra"
    /\ pc[p] = "download"
    /\ \/ /\ DownloadWrite(p)
          /\ Step(p, "download", "", TRUE)
          /\ pc' = [pc EXCEPT ![p] = "transcribe"]
       \/ /\ Step(p, "download", "", FALSE)
          /\ pc' = [pc EXCEPT ![p] = OnDownloadError]
          /\ UNCHANGED fs
    /\ UNCHANGED <<cfgvars, locals, ret>>

\* transcribe_wav opens the file at tmp_path: it can return a transcript only
\* when a file is there.
Readable(p) == fs[tmp_path[p]] # NoOwner

\* Variant: only a missing transcript counts as no speech.
NoSpeechExtra_none(t) == t = NoText

\* extra.py line 218: `if not transcript`.
NoSpeechExtra(t) == t = 0

\* Lines 216-223.
X_Transcribe(p) ==
    /\ program = "extra"
    /\ pc[p] = "transcribe"
    /\ \/ /\ Readable(p)
          /\ Step(p, "transcribe_wav", "", TRUE)
          /\ \E t \in TranscriptLens :
               /\ transcript' = [transcript EXCEPT ![p] = t]
               /\ pc' = [pc EXCEPT ![p] = IF NoSpeechExtra(t) THEN "nospeech" ELSE "analyze"]
       \/ /\ Step(p, "transcribe_wav", "", FALSE)
          /\ pc' = [pc EXCEPT ![p] = OnError]
          /\ UNCHANGED transcript
    /\ UNCHANGED <<cfgvars, fs, wav_files, wav_urls, wav_url, messages, reply_cap, tmp_path,
                   analysis, grade_emojis, exc, ret>>

\* Variant: no `continue` after the notice, the run falls through.
AfterNoSpeech_fallthrough == "analyze"

\* Line 223: `continue` inside the try block, so the finally block runs next.
AfterNoSpeech == "unlink"

\* Lines 219-223: the "could not transcribe" notice, then continue.
X_NoSpeech(p) ==
    /\ program = "extra"
    /\ pc[p] = "nospeech"
    /\ \/ /\ Step(p, "say", "no_speech", TRUE)
          /\ pc' = [pc EXCEPT ![p] = AfterNoSpeech]
       \/ /\ Step(p, "say", "no_speech", FALSE)
          /\ pc' = [pc EXCEPT ![p] = OnError]
    /\ UNCHANGED <<cfgvars, fs, locals, ret>>

\* Variant: without a grade label the reply is skipped.
AfterExtract_needsGrade(grades) == IF grades = << >> THEN "unlink" ELSE "react"

\* Where the run goes once the labels are extracted: the reaction loop, or
\* straight to the reply when no label is left.
AfterExtract(grades) == IF grades = << >> THEN "reply" ELSE "react"

\* Variant: a failed reaction is not caught inside the loop.
AfterReactionError_raise(rest) == OnError

\* Lines 238-239: a failed reactions_add is logged and the loop goes on
\* with the remaining labels.
AfterReactionError(rest) == AfterExtract(rest)

\* Lines 229-233: analyze_transcript, then extract_grade_emojis.
X_Analyze(p) ==
    /\ program = "extra"
    /\ pc[p] = "analyze"
    /\ \/ /\ Step(p, "analyze_transcript", "", TRUE)
          /\ \E a \in AnalysisTexts :
               LET grades == extract_grade_emojis(a, program)
               IN /\ analysis' = [analysis EXCEPT ![p] = a]
                  /\ grade_emojis' = [grade_emojis EXCEPT ![p] = grades]
                  /\ pc' = [pc EXCEPT ![p] = AfterExtract(grades)]
       \/ /\ Step(p, "analyze_transcript", "", FALSE)
          /\ pc' = [pc EXCEPT ![p] = OnError]
          /\ UNCHANGED <<analysis, grade_emojis>>
    /\ UNCHANGED <<cfgvars, fs, wav_files, wav_urls, wav_url, messages, reply_cap, tmp_path,
                   transcript, exc, ret>>

\* Lines 234-239: one reactions_add per label, a failure is logged and skipped.
X_React(p) ==
    /\ program = "extra"
    /\ pc[p] = "react"
    /\ \E ok \in BOOLEAN :
         /\ Step(p, "reactions_add", Head(grade_emojis[p]), ok)
         /\ pc' = [pc EXCEPT ![p] = IF ok THEN AfterExtract(Tail(grade_emojis[p]))
                                    ELSE AfterReactionError(Tail(grade_emojis[p]))]
    /\ grade_emojis' = [grade_emojis EXCEPT ![p] = Tail(@)]
    /\ UNCHANGED <<cfgvars, fs, wav_files, wav_urls, wav_url, messages, reply_cap, tmp_path,
                   transcript, analysis, exc, ret>>

\* Lines 242-247: the threaded analysis reply.
X_Reply(p) ==
    /\ program = "extra"
    /\ pc[p] = "reply"
    /\ \/ /\ Step(p, "say", "analysis", TRUE)
          /\ pc' = [pc EXCEPT ![p] = "unlink"]
       \/ /\ Step(p, "say", "analysis", FALSE)
          /\ pc' = [pc EXCEPT ![p] = OnError]
    /\ UNCHANGED <<cfgvars, fs, locals, ret>>

\* Lines 249-254: logger.exception, then the error notice; say is not
\* guarded here, so its exception leaves the except block.
X_Except(p) ==
    /\ program = "extra"
    /\ pc[p] = "except"
    /\ pc' = [pc EXCEPT ![p] = "unlink"]
    /\ \/ /\ Step(p, "say", "error", TRUE)
          /\ UNCHANGED exc
       \/ /\ Step(p, "say", "error", FALSE)
          /\ exc' = [exc EXCEPT ![p] = TRUE]
    /\ UNCHANGED <<cfgvars, fs, wav_files, wav_urls, wav_url, messages, reply_cap, tmp_path,
                   transcript, analysis, grade_emojis, ret>>

\* Variant: the temp file is never deleted.
Unlink_forgotten(path) == UNCHANGED fs

\* os.unlink(path): removes whatever file is at the path; a missing file
\* (or, in extra.py, an unbound tmp_path) raises, which the caller ignores.
Unlink(path) ==
    IF path # NoPath /\ fs[path] # NoOwner
    THEN fs' = [fs EXCEPT ![path] = NoOwner]
    ELSE UNCHANGED fs

\* Lines 255-260: finally, the temp file.
X_Unlink(p) ==
    /\ program = "extra"
    /\ pc[p] = "unlink"
    /\ Step(p, "os.unlink", "", tmp_path[p] # NoPath /\ fs[tmp_path[p]] # NoOwner)
    /\ Unlink(tmp_path[p])
    /\ pc' = [pc EXCEPT ![p] = "unmark"]
    /\ UNCHANGED <<cfgvars, locals, ret>>

\* Variant: the removal sits after the try statement, so a propagating
\* exception skips it.
RemoveMarker_unlessError(p) ==
    IF exc[p] THEN UNCHANGED <<log, msg>>
    ELSE \E ok \in BOOLEAN : Step(p, "reactions_remove", HOURGLASS, ok)

\* Lines 262-266: the hourglass is removed in the finally block, best effort.
RemoveMarker(p) ==
    \E ok \in BOOLEAN : Step(p, "reactions_remove", HOURGLASS, ok)

\* Lines 255-266 and 192: after the finally block the pending exception
\* leaves the handler, or the loop goes on with the next file.
X_Unmark(p) ==
    /\ program = "extra"
    /\ pc[p] = "unmark"
    /\ RemoveMarker(p)
    /\ IF exc[p]
       THEN /\ pc' = [pc EXCEPT ![p] = "idle"]
            /\ ret' = [ret EXCEPT ![p] = "raise"]
            /\ wav_files' = [wav_files EXCEPT ![p] = << >>]
            /\ tmp_path' = [tmp_path EXCEPT ![p] = NoPath]
       ELSE /\ pc' = [pc EXCEPT ![p] = "for"]
            /\ wav_files' = [wav_files EXCEPT ![p] = Tail(@)]
            /\ UNCHANGED <<ret, tmp_path>>
    /\ exc' = [exc EXCEPT ![p] = FALSE]
    /\ UNCHANGED <<cfgvars, fs, wav_urls, wav_url, messages, reply_cap, transcript, analysis,
                   grade_emojis>>

\* ------------------------------------------------------------ qa_bot.py
\* A message text as a sequence of tokens: H is http:// or https://, W is
\* ".wav", V is ".wav" in another letter case, c is any other character of
\* a URL, "_" is whitespace, and the three markup characters.
UrlTokens == {"H", "W", "V", "c", "<", ">", "|", "_"}

\* [^\s<>|] and [^|>]
UrlChar(t) == t \notin {"_", "<", ">", "|"}
LinkChar(t) == t \notin {"|", ">"}

\* \.wav under re.IGNORECASE
IsWav(t) == t \in {"W", "V"}

\* How far the greedy [^\s<>|]+ reaches after position i.
UrlRunEnd(text, i) ==
    CHOOSE j \in i..Len(text) :
        /\ \A k \in (i + 1)..j : UrlChar(text[k])
        /\ j = Len(text) \/ ~UrlChar(text[j + 1])

\* How far the greedy [^|>]+ reaches after position i.
LinkRunEnd(text, i) ==
    CHOOSE j \in i..Len(text) :
        /\ \A k \in (i + 1)..j : LinkChar(text[k])
        /\ j = Len(text) \/ ~LinkChar(text[j + 1])

\* WAV_URL_PATTERN.findall(text), https?://[^\s<>|]+\.wav: leftmost match
\* first, the class taken greedily and given back up to the last ".wav";
\* a URL is returned as the span <<first, last>> of its tokens.
RECURSIVE FindBare(_, _)
FindBare(text, i) ==
    IF i > Len(text) THEN << >>
    ELSE LET ends == { k \in (i + 2)..UrlRunEnd(text, i) : IsWav(text[k]) }
             last == CHOOSE k \in ends : \A m \in ends : m <= k
         IN IF text[i] = "H" /\ ends # {}
            THEN << << i, last >> >> \o FindBare(text, last + 1)
            ELSE FindBare(text, i + 1)

\* re.findall(r'<(https?://[^|>]+\.wav)[|>]', text): the class stops at the
\* first "|" or ">", which must directly follow the ".wav".
RECURSIVE FindLinks(_, _)
FindLinks(text, i) ==
    IF i >= Len(text) THEN << >>
    ELSE LET j == LinkRunEnd(text, i + 1)
         IN IF text[i] = "<" /\ text[i + 1] = "H"
               /\ j >= i + 3 /\ IsWav(text[j]) /\ j < Len(text)
            THEN << << i + 1, j >> >> \o FindLinks(text, j + 2)
            ELSE FindLinks(text, i + 1)

\* Lines 94-99: the wrapped links win over the bare URLs.
extract_wav_urls(text) ==
    LET slack_links == FindLinks(text, 1)
    IN IF slack_links # << >> THEN slack_links ELSE FindBare(text, 1)

\* Texts made of up to n of the given fragments.
RECURSIVE Concats(_, _)
Concats(frags, n) ==
    IF n = 0 THEN { << >> }
    ELSE LET shorter == Concats(frags, n - 1)
         IN shorter \cup { a \o f : a \in shorter, f \in frags }

\* Texts of the events handled: up to MaxRefs words, each a wrapped wav
\* link, a bare wav URL or another word.
EventFrags == { << "<", "H", "c", "W", ">" >>, << "H", "c", "W", "_" >>, << "c", "_" >> }
MsgTexts == Concats(EventFrags, MaxRefs)

\* Texts given to the URL extractor on its own: up to MaxFrags fragments,
\* each a single token, a bare wav URL or a wrapped wav link.
UrlFrags ==
    { << t >> : t \in UrlTokens }
    \cup { << "H", "c", "W" >>, << "<", "H", "c", "W", ">" >> }
UrlTexts == Concats(UrlFrags, MaxFrags)

\* Lines 297-322 and 204-206: handle_message calls process_wav_url on the
\* first URL with say and client; tmp_path starts as None.
Q_Receive(p) ==
    /\ program = "qa_bot"
    /\ phase = "live"
    /\ p \in workers
    /\ pc[p] = "idle"
    /\ \E channel \in Channels, urls \in { extract_wav_urls(text) : text \in MsgTexts } :
         LET miss == QA_CHANNEL_ID # "" /\ channel # QA_CHANNEL_ID
             skip == miss \/ urls = << >>
         IN /\ wav_urls' = [wav_urls EXCEPT ![p] = IF miss THEN << >> ELSE urls]
            /\ wav_url' = [wav_url EXCEPT ![p] = IF miss THEN NoUrl ELSE PickUrl(urls)]
            /\ pc' = [pc EXCEPT ![p] = IF skip THEN "idle" ELSE "mktemp"]
            /\ ret' = [ret EXCEPT ![p] = IF skip THEN "return" ELSE "none"]
            /\ reply_cap' = [reply_cap EXCEPT ![p] = ~skip]
    /\ tmp_path' = [tmp_path EXCEPT ![p] = NoPath]
    /\ NewRun(p)
    /\ msg' = [msg EXCEPT ![p] = NoMsg]
    /\ UNCHANGED <<cfgvars, fs, wav_files, messages, exc>>

\* Lines 208-209.
Q_MkTemp(p) ==
    /\ program = "qa_bot"
    /\ pc[p] = "mktemp"
    /\ \/ /\ \E path \in Paths : CreateTemp(p, path)
          /\ Step(p, "NamedTemporaryFile", "", TRUE)
          /\ pc' = [pc EXCEPT ![p] = "download"]
       \/ /\ Step(p, "NamedTemporaryFile", "", FALSE)
          /\ pc' = [pc EXCEPT ![p] = OnError]
          /\ UNCHANGED <<fs, tmp_path>>
    /\ UNCHANGED <<cfgvars, wav_files, wav_urls, wav_url, messages, reply_cap, transcript,
                   analysis, grade_emojis, exc, ret>>

\* Line 210.
Q_Download(p) ==
    /\ program = "qa_bot"
    /\ pc[p] = "download"
    /\ \/ /\ DownloadWrite(p)
          /\ Step(p, "download", "", TRUE)
          /\ pc' = [pc EXCEPT ![p] = "transcribe"]
       \/ /\ Step(p, "download", "", FALSE)
          /\ pc' = [pc EXCEPT ![p] = OnDownloadError]
          /\ UNCHANGED fs
    /\ UNCHANGED <<cfgvars, locals, ret>>

\* qa_bot.py line 216: `if not transcript or len(transcript.strip()) < 10`.
NoSpeechQa(t) == t = 0 \/ t < MIN_USABLE_LEN

\* Variant: the mode toggle is not consulted before the reaction.
MayReact_always(p) == reply_cap[p]

\* Lines 219 and 241: the conditions under which Slack is written to.
MayReact(p) == ~ANALYZE_ONLY /\ reply_cap[p]
MayReply(p) == ~ANALYZE_ONLY /\ reply_cap[p]

\* Lines 214-225: no usable speech returns, after the "x" reaction when
\* reactions are posted.
Q_Transcribe(p) ==
    /\ program = "qa_bot"
    /\ pc[p] = "transcribe"
    /\ \/ /\ Readable(p)
          /\ Step(p, "transcribe_wav", "", TRUE)
          /\ \E t \in TranscriptLens :
               /\ transcript' = [transcript EXCEPT ![p] = t]
               /\ pc' = [pc EXCEPT ![p] =
                           IF ~NoSpeechQa(t) THEN "analyze"
                           ELSE IF MayReact(p) THEN "nospeech" ELSE "unlink"]
       \/ /\ Step(p, "transcribe_wav", "", FALSE)
          /\ pc' = [pc EXCEPT ![p] = OnError]
          /\ UNCHANGED transcript
    /\ UNCHANGED <<cfgvars, fs, wav_files, wav_urls, wav_url, messages, reply_cap, tmp_path,
                   analysis, grade_emojis, exc, ret>>

\* Lines 219-225: the "x" reaction, best effort, then return.
Q_NoSpeech(p) ==
    /\ program = "qa_bot"
    /\ pc[p] = "nospeech"
    /\ \E ok \in BOOLEAN : Step(p, "reactions_add", "x", ok)
    /\ pc' = [pc EXCEPT ![p] = "unlink"]
    /\ UNCHANGED <<cfgvars, fs, locals, ret>>

\* Lines 232-241: analysis and labels; log-only mode returns here.
Q_Analyze(p) ==
    /\ program = "qa_bot"
    /\ pc[p] = "analyze"
    /\ \/ /\ Step(p, "analyze_transcript", "", TRUE)
          /\ \E a \in AnalysisTexts :
               LET grades == extract_grade_emojis(a, program)
               IN /\ analysis' = [analysis EXCEPT ![p] = a]
                  /\ grade_emojis' = [grade_emojis EXCEPT ![p] =
                                        IF MayReply(p) THEN grades ELSE << >>]
                  /\ pc' = [pc EXCEPT ![p] =
                              IF MayReply(p) THEN AfterExtract(grades) ELSE "unlink"]
       \/ /\ Step(p, "analyze_transcript", "", FALSE)
          /\ pc' = [pc EXCEPT ![p] = OnError]
          /\ UNCHANGED <<analysis, grade_emojis>>
    /\ UNCHANGED <<cfgvars, fs, wav_files, wav_urls, wav_url, messages, reply_cap, tmp_path,
                   transcript, exc, ret>>

\* Lines 242-247.
Q_React(p) ==
    /\ program = "qa_bot"
    /\ pc[p] = "react"
    /\ \E ok \in BOOLEAN :
         /\ Step(p, "reactions_add", Head(grade_emojis[p]), ok)
         /\ pc' = [pc EXCEPT ![p] = IF ok THEN AfterExtract(Tail(grade_emojis[p]))
                                    ELSE AfterReactionError(Tail(grade_emojis[p]))]
    /\ grade_emojis' = [grade_emojis EXCEPT ![p] = Tail(@)]
    /\ UNCHANGED <<cfgvars, fs, wav_files, wav_urls, wav_url, messages, reply_cap, tmp_path,
                   transcript, analysis, exc, ret>>

\* Lines 249-257: the threaded reply; its exception is caught at line 259.
Q_Reply(p) ==
    /\ program = "qa_bot"
    /\ pc[p] = "reply"
    /\ \/ /\ Step(p, "say", "analysis", TRUE)
          /\ pc' = [pc EXCEPT ![p] = "unlink"]
       \/ /\ Step(p, "say", "analysis", FALSE)
          /\ pc' = [pc EXCEPT ![p] = OnError]
    /\ UNCHANGED <<cfgvars, fs, locals, ret>>

\* Lines 259-261: the error is logged, nothing is posted, None is returned.
Q_Except(p) ==
    /\ program = "qa_bot"
    /\ pc[p] = "except"
    /\ Step(p, "logger.exception", "", TRUE)
    /\ pc' = [pc EXCEPT ![p] = "unlink"]
    /\ UNCHANGED <<cfgvars, fs, locals, ret>>

\* Lines 262-267: finally, `if tmp_path:` unlink; process_wav_url and then
\* handle_message return.
Q_Unlink(p) ==
    /\ program = "qa_bot"
    /\ pc[p] = "unlink"
    /\ IF tmp_path[p] # NoPath
       THEN /\ Step(p, "os.unlink", "", fs[tmp_path[p]] # NoOwner)
            /\ Unlink(tmp_path[p])
       ELSE UNCHANGED <<fs, log, msg>>
    /\ pc' = [pc EXCEPT ![p] = "idle"]
    /\ ret' = [ret EXCEPT ![p] = "return"]
    /\ tmp_path' = [tmp_path EXCEPT ![p] = NoPath]
    /\ UNCHANGED <<cfgvars, wav_files, wav_urls, wav_url, messages, reply_cap, transcript,
                   analysis, grade_emojis, exc>>

\* The thread of __main__; its replay is over before the listener's threads
\* are started.
MainThread == NThreads

\* Texts of the messages of a channel's history: no URL, one bare wav URL,
\* one wrapped wav link, two bare wav URLs.
HistTexts ==
    { << "c", "_" >>,
      << "H", "c", "W", "_" >>,
      << "<", "H", "c", "W", ">" >>,
      << "H", "c", "W", "_", "H", "c", "W", "_" >> }

\* What conversations_history returns: the latest messages, newest first.
Histories == UNION { [1..n -> HistTexts] : n \in 0..MaxHist }

\* Lines 282-290: the first message of the list whose text holds a wav URL.
RECURSIVE FirstWithUrls(_, _)
FirstWithUrls(history, i) ==
    IF i > Len(history) THEN << >>
    ELSE IF extract_wav_urls(history[i]) # << >>
         THEN extract_wav_urls(history[i])
         ELSE FirstWithUrls(history, i + 1)

\* Lines 338-339 and 272-292: `if QA_CHANNEL_ID: process_latest_message`.
\* The history is fetched (an exception is logged and ends the replay) and
\* process_wav_url is called on the first URL found, with message_ts and
\* channel but without say and client.
Q_Startup ==
    /\ program = "qa_bot"
    /\ phase = "init"
    /\ phase' = "startup"
    /\ IF QA_CHANNEL_ID = ""
       THEN UNCHANGED <<pc, wav_urls, wav_url, messages, reply_cap, tmp_path, ret>>
       ELSE \E fetched \in BOOLEAN, history \in Histories :
              LET urls == IF fetched THEN FirstWithUrls(history, 1) ELSE << >>
                  p == MainThread
              IN /\ messages' = IF fetched THEN history ELSE << >>
                 /\ wav_urls' = [wav_urls EXCEPT ![p] = urls]
                 /\ wav_url' = [wav_url EXCEPT ![p] = PickUrl(urls)]
                 /\ pc' = [pc EXCEPT ![p] = IF urls = << >> THEN "idle" ELSE "mktemp"]
                 /\ ret' = [ret EXCEPT ![p] = IF urls = << >> THEN "return" ELSE "none"]
                 /\ reply_cap' = [reply_cap EXCEPT ![p] = FALSE]
                 /\ tmp_path' = [tmp_path EXCEPT ![p] = NoPath]
    /\ UNCHANGED <<confvars, fs, wav_files, transcript, analysis, grade_emojis,
                   exc, log, msg>>

\* Lines 341-343: the replay has returned, its local list is gone; the
\* listener is started.
Q_Listen ==
    /\ program = "qa_bot"
    /\ phase = "startup"
    /\ pc[MainThread] = "idle"
    /\ phase' = "live"
    /\ messages' = << >>
    /\ UNCHANGED <<confvars, fs, pc, wav_files, wav_urls, wav_url, reply_cap,
                   tmp_path, transcript, analysis, grade_emojis, exc, ret, log, msg>>

\* ------------------------------------------------------- grade extractor
\* extract_grade_emojis applied to the text given.
G_Extract ==
    /\ g_found = NotRun
    /\ g_found' = extract_grade_emojis(g_text, program)
    /\ UNCHANGED <<handlervars, g_text, t_chunks, t_out, u_text, u_urls>>

\* ------------------------------------------------- chunked transcription
\* What recognize_google does with one chunk: it returns a text, raises
\* UnknownValueError, or raises another error (RequestError).
ChunkTexts ==
    { << >>, << "a" >>, << "b" >>, << "a", " ", "b" >>, << " ", "a" >>, << "b", " " >> }
ChunkOutcomes ==
    { [kind |-> "text", text |-> t] : t \in ChunkTexts }
    \cup { [kind |-> "unknown", text |-> << >>], [kind |-> "error", text |-> << >>] }
ChunkLists == UNION { [1..n -> ChunkOutcomes] : n \in 0..MaxChunks }
Raised == << "raised" >>

\* Variant: "".join(parts).
RECURSIVE Join_nosep(_)
Join_nosep(parts) ==
    IF parts = << >> THEN << >> ELSE Head(parts) \o Join_nosep(Tail(parts))

\* " ".join(parts)
RECURSIVE Join(_)
Join(parts) ==
    IF parts = << >> THEN << >>
    ELSE IF Len(parts) = 1 THEN Head(parts)
    ELSE Head(parts) \o << " " >> \o Join(Tail(parts))

\* str.strip(): leading and trailing whitespace removed.
RECURSIVE LStrip(_)
LStrip(str) == IF str # << >> /\ Head(str) = " " THEN LStrip(Tail(str)) ELSE str
RECURSIVE RStrip(_)
RStrip(str) ==
    IF str # << >> /\ str[Len(str)] = " " THEN RStrip(SubSeq(str, 1, Len(str) - 1)) ELSE str
Strip(str) == RStrip(LStrip(str))

\* Variant: `except Exception` in the loop, every recognizer error is skipped.
RECURSIVE transcribe_wav_skipall(_, _, _)
transcribe_wav_skipall(chunks, i, transcript_parts) ==
    IF i > Len(chunks) THEN Strip(Join(transcript_parts))
    ELSE IF chunks[i].kind = "text"
    THEN transcribe_wav_skipall(chunks, i + 1, Append(transcript_parts, chunks[i].text))
    ELSE transcribe_wav_skipall(chunks, i + 1, transcript_parts)

\* extra.py transcribe_wav, lines 96-110: the chunk loop; UnknownValueError
\* is skipped, any other exception leaves the function.
RECURSIVE transcribe_wav(_, _, _)
transcribe_wav(chunks, i, transcript_parts) ==
    IF i > Len(chunks) THEN Strip(Join(transcript_parts))
    ELSE IF chunks[i].kind = "error" THEN Raised
    ELSE IF chunks[i].kind = "unknown"
    THEN transcribe_wav(chunks, i + 1, transcript_parts)
    ELSE transcribe_wav(chunks, i + 1, Append(transcript_parts, chunks[i].text))

\* main.py analyze_dialogue, lines 27-44: full_transcript += chunk_text + " ",
\* stripped after the loop; another exception goes to the outer handler.
RECURSIVE analyze_dialogue(_, _, _)
analyze_dialogue(chunks, i, full_transcript) ==
    IF i > Len(chunks) THEN Strip(full_transcript)
    ELSE IF chunks[i].kind = "error" THEN Raised
    ELSE IF chunks[i].kind = "unknown"
    THEN analyze_dialogue(chunks, i + 1, full_transcript)
    ELSE analyze_dialogue(chunks, i + 1, full_transcript \o chunks[i].text \o << " " >>)

\* extra.py handle_message, lines 216-229 and 249: where the run goes after
\* the call of transcribe_wav returned r or raised.
AfterTranscribe_extra(r) ==
    IF r = Raised THEN OnError
    ELSE IF NoSpeechExtra(Len(r)) THEN "nospeech" ELSE "analyze"

\* main.py analyze_dialogue, lines 44-48, 72 and 82-83: after the loop the
\* function returns on an empty transcript, else calls ollama.generate; an
\* exception of the loop is reported by the outer handler.
AfterTranscribe_main(r) ==
    IF r = Raised THEN "except"
    ELSE IF r = << >> THEN "return" ELSE "generate"

\* Both transcription loops applied to the chunk outcomes given, and what
\* the caller does next.
T_Transcribe ==
    /\ t_out.extra = NotRun
    /\ LET r_extra == transcribe_wav(t_chunks, 1, << >>)
           r_main == analyze_dialogue(t_chunks, 1, << >>)
       IN t_out' = [extra |-> r_extra, main |-> r_main,
                    extra_next |-> AfterTranscribe_extra(r_extra),
                    main_next |-> AfterTranscribe_main(r_main)]
    /\ UNCHANGED <<handlervars, g_text, g_found, t_chunks, u_text, u_urls>>

\* ---------------------------------------------------------- URL extractor
\* extract_wav_urls applied to the text given.
U_Extract ==
    /\ u_urls = NotRun
    /\ u_urls' = extract_wav_urls(u_text)
    /\ UNCHANGED <<handlervars, g_text, g_found, t_chunks, t_out, u_text>>

\* ------------------------------------------------------- specifications
Next ==
    \/ X_Main \/ Q_Startup \/ Q_Listen
    \/ \E p \in Threads :
        \/ X_Receive(p) \/ X_For(p) \/ X_Ack(p) \/ X_MkTemp(p) \/ X_Download(p)
        \/ X_Transcribe(p) \/ X_NoSpeech(p) \/ X_Analyze(p) \/ X_React(p)
        \/ X_Reply(p) \/ X_Except(p) \/ X_Unlink(p) \/ X_Unmark(p)
        \/ Q_Receive(p) \/ Q_MkTemp(p) \/ Q_Download(p) \/ Q_Transcribe(p)
        \/ Q_NoSpeech(p) \/ Q_Analyze(p) \/ Q_React(p) \/ Q_Reply(p)
        \/ Q_Except(p) \/ Q_Unlink(p)

Spec == Init /\ [][Next]_vars

SpecConc == InitConc /\ [][Next]_vars

SpecGrade == InitGrade /\ [][G_Extract]_vars

\* No event: the transcription loops applied to every list of up to
\* MaxChunks chunk outcomes.
InitChunk == InitWith({}, FALSE, {""}, {<< >>}, ChunkLists, {<< >>})

SpecChunk == InitChunk /\ [][T_Transcribe]_vars

\* No event: the URL extractor applied to every text of UrlTexts.
InitUrl == InitWith({}, FALSE, {""}, {<< >>}, {<< >>}, UrlTexts)

SpecUrl == InitUrl /\ [][U_Extract]_vars

\* One event at a time, nothing observed; every call of a handler that is
\* running returns or raises, and the thread goes on.
InitLive == InitWith({1}, FALSE, ChannelConfigs, {<< >>}, {<< >>}, {<< >>})

RunStep ==
    \E p \in Threads :
        \/ X_For(p) \/ X_Ack(p) \/ X_MkTemp(p) \/ X_Download(p)
        \/ X_Transcribe(p) \/ X_NoSpeech(p) \/ X_Analyze(p) \/ X_React(p)
        \/ X_Reply(p) \/ X_Except(p) \/ X_Unlink(p) \/ X_Unmark(p)
        \/ Q_MkTemp(p) \/ Q_Download(p) \/ Q_Transcribe(p)
        \/ Q_NoSpeech(p) \/ Q_Analyze(p) \/ Q_React(p) \/ Q_Reply(p)
        \/ Q_Except(p) \/ Q_Unlink(p)

SpecLive == InitLive /\ [][Next]_vars /\ WF_vars(RunStep)

\* ------------------------------------------------------------ observations
\* The run of thread p is over: the handler is back at the loop head or has
\* left, and the run made at least one call.
RunOver(p) == pc[p] \in {"idle", "for"} /\ log[p] # << >>

\* Positions of the run's log where op(arg) was called / op was called.
Calls(p, o, a) == { i \in DOMAIN log[p] : log[p][i].op = o /\ log[p][i].arg = a }
CallsOf(p, o) == { i \in DOMAIN log[p] : log[p][i].op = o }
Has(p, c) == \E i \in DOMAIN log[p] : log[p][i] = c

\* Threaded replies that reached Slack (a say that raised posted nothing).
Posted(p) == { i \in CallsOf(p, "say") : log[p][i].ok }
\* Reactions other than the marker that were added to the message.
Added(p) == { i \in CallsOf(p, "reactions_add") :
                log[p][i].ok /\ log[p][i].arg # HOURGLASS }
ReplyKinds == {"no_speech", "analysis", "error"}

\* ------------------------------------------------------------------ claims
\* C1: once a run has ended, whichever way, the thread owns no temp file;
\* during a run it owns at most the one file of that run.
C1_TempFileGone ==
    \A p \in Threads :
        /\ pc[p] \in {"idle", "for"} => \A x \in Paths : fs[x] # p
        /\ \A x \in Paths : fs[x] = p => tmp_path[p] = x

\* C1 witness: a run whose temp file was created and written, and that
\* failed at the reply and again at the error notice, is over.
C1_Witness ==
    \E p \in Threads :
        /\ RunOver(p)
        /\ Has(p, Call("NamedTemporaryFile", "", TRUE))
        /\ Has(p, Call("download", "", TRUE))
        /\ Has(p, Call("say", "analysis", FALSE))
        /\ Has(p, Call("os.unlink", "", TRUE))
        /\ \A x \in Paths : fs[x] = NoOwner

\* C2: in extra.py every run starts with the attempt to add the marker and
\* ends with exactly one attempt to remove it, on every exit path; neither
\* outcome changes the run: the handler raises only when the error notice
\* itself could not be posted.
C2_MarkerRemoved ==
    \A p \in Threads :
        /\ (program = "extra" /\ log[p] # << >>) =>
               /\ log[p][1].op = "reactions_add" /\ log[p][1].arg = HOURGLASS
               /\ Cardinality(Calls(p, "reactions_add", HOURGLASS)) = 1
               /\ Cardinality(CallsOf(p, "reactions_remove")) <= 1
        /\ (program = "extra" /\ RunOver(p)) =>
               /\ Calls(p, "reactions_remove", HOURGLASS) = {Len(log[p])}
               /\ ret[p] = "raise" <=> Has(p, Call("say", "error", FALSE))

\* C2 witness: the add failed, the run went through the no-speech exit,
\* and the removal failed as well.
C2_Witness ==
    \E p \in Threads :
        /\ program = "extra" /\ RunOver(p)
        /\ ~log[p][1].ok
        /\ Has(p, Call("say", "no_speech", TRUE))
        /\ log[p][Len(log[p])] = Call("reactions_remove", HOURGLASS, FALSE)
        /\ ret[p] # "raise"

\* Whether the run of p could post a reply at all.
CanReply(p) == program = "extra" \/ MayReply(p)

C4_HandlerReturns == \A p \in Threads : ret[p] # "raise"


\* Whether the glyph occurs in the text as a contiguous substring.
Occurs(glyph, text) ==
    \E i \in 1..Len(text) :
        \A j \in 1..Len(glyph) : i + j - 1 <= Len(text) /\ text[i + j - 1] = glyph[j]

\* C5: extract_grade_emojis returns the labels of exactly those glyphs of
\* the table that occur in the text, each once, in table order whatever the
\* order and number of the occurrences; one glyph gives one label, none the
\* empty list.
C5_GradeSetExact ==
    g_found # NotRun =>
        LET table == GRADE_EMOJI_MAP(program)
            present == { k \in DOMAIN table : Occurs(table[k][1], g_text) }
        IN /\ { g_found[i] : i \in DOMAIN g_found } = { table[k][2] : k \in present }
           /\ Len(g_found) = Cardinality(present)
           /\ present = {} => g_found = << >>
           /\ Cardinality(present) = 1 => Len(g_found) = 1
           /\ \A i, j \in DOMAIN g_found :
                  i < j => \E k, l \in present :
                              k < l /\ table[k][2] = g_found[i] /\ table[l][2] = g_found[j]

\* C5 witness: two known glyphs, out of table order, one of them twice.
C5_Witness ==
    /\ g_text = << "YH", "GH", "YH" >>
    /\ g_found = << "green_heart", "yellow_heart" >>

C7_DownloadFailure ==
    \A p \in Threads :
        (RunOver(p) /\ Has(p, Call("download", "", FALSE))) =>
            /\ CallsOf(p, "transcribe_wav") = {}
            /\ CallsOf(p, "analyze_transcript") = {}
            /\ Added(p) = {}
            /\ CanReply(p) =>
                   /\ Cardinality(Posted(p)) = 1
                   /\ \A i \in Posted(p) : log[p][i].arg = "error"
            /\ CallsOf(p, "os.unlink") # {}
            /\ \A x \in Paths : fs[x] # p
            /\ program = "extra" => CallsOf(p, "reactions_remove") # {}

\* Position of a call in the stage order of a run: marker add, temp file
\* and download, transcribe, analyze, grade reactions, reply (or failure
\* notice), temp-file deletion, marker removal.
Rank(c) ==
    CASE c.op = "reactions_add" /\ c.arg = HOURGLASS -> 1
      [] c.op = "NamedTemporaryFile" -> 2
      [] c.op = "download" -> 3
      [] c.op = "transcribe_wav" -> 4
      [] c.op = "analyze_transcript" -> 5
      [] c.op = "reactions_add" /\ c.arg # HOURGLASS -> 6
      [] c.op \in {"say", "logger.exception"} -> 7
      [] c.op = "os.unlink" -> 8
      [] c.op = "reactions_remove" -> 9
Cleanup(c) == Rank(c) >= 8
FailureNotice(c) == c.op = "logger.exception" \/ (c.op = "say" /\ c.arg = "error")
SameStage(c, d) == Rank(c) = 6 /\ Rank(d) = 6 /\ c.arg # d.arg

\* C8 as stated: the calls of a run follow the stage order, no stage runs
\* twice, and after a stage that failed nothing but the failure notice and
\* the cleanup is executed.
C8_StrictStages ==
    \A p \in Threads : \A i, j \in DOMAIN log[p] :
        i < j =>
            /\ Rank(log[p][i]) < Rank(log[p][j])
               \/ SameStage(log[p][i], log[p][j])
               \/ FailureNotice(log[p][j])
            /\ ~log[p][i].ok =>
                   Cleanup(log[p][j]) \/ FailureNotice(log[p][j])

\* The stages whose failure ends the pipeline of the run: temp file,
\* download, transcribe, analyze, reply.  Marker and grade reactions are
\* best effort.
Fatal(c) == Rank(c) \in {2, 3, 4, 5, 7}

\* C8 amended: the calls of a run follow the stage order and no stage runs
\* twice (the grade reactions are one call per label; a reply whose post
\* raised is followed at once by the failure notice); download, transcribe
\* and analyze each start right after the previous stage succeeded; grade
\* reactions and replies need a transcript, the analysis reply an analysis;
\* after a failed temp-file creation, download, transcription, analysis or
\* reply only the failure notice and the cleanup are executed, while a
\* failed marker add or grade reaction stops nothing.
C8_StageOrder ==
    \A p \in Threads :
        /\ \A i, j \in DOMAIN log[p] :
               i < j =>
                   /\ Rank(log[p][i]) < Rank(log[p][j])
                      \/ SameStage(log[p][i], log[p][j])
                      \/ /\ j = i + 1
                         /\ log[p][i].op = "say" /\ ~log[p][i].ok
                         /\ ~FailureNotice(log[p][i])
                         /\ FailureNotice(log[p][j])
                   /\ (~log[p][i].ok /\ Fatal(log[p][i])) =>
                          Cleanup(log[p][j]) \/ FailureNotice(log[p][j])
        /\ \A j \in DOMAIN log[p] :
               /\ Rank(log[p][j]) \in 3..5 =>
                      /\ j > 1
                      /\ Rank(log[p][j - 1]) = Rank(log[p][j]) - 1
                      /\ log[p][j - 1].ok
               /\ (Rank(log[p][j]) \in 6..7 /\ ~FailureNotice(log[p][j])) =>
                      Has(p, Call("transcribe_wav", "", TRUE))
               /\ log[p][j].op = "say" /\ log[p][j].arg = "analysis" =>
                      Has(p, Call("analyze_transcript", "", TRUE))
               /\ FailureNotice(log[p][j]) =>
                      \E i \in 1..(j - 1) : ~log[p][i].ok /\ Fatal(log[p][i])

\* C8 witness: the marker add and a grade reaction failed, and the run went
\* on to add the next reaction, post the analysis and clean up.
C8_Witness ==
    \E p \in Threads :
        /\ program = "extra" /\ RunOver(p)
        /\ ~log[p][1].ok
        /\ Has(p, Call("reactions_add", "heart", FALSE))
        /\ Has(p, Call("reactions_add", "arrow_upper_right", TRUE))
        /\ Has(p, Call("say", "analysis", TRUE))
        /\ Has(p, Call("os.unlink", "", TRUE))

\* C9 as stated: a run writes, reads and deletes only the temp file it
\* created: the download and the transcription find the run's own file at
\* tmp_path, and the cleanup step removes no file owned by another run.
C9_OwnFileOnly ==
    [][\A p \in Threads :
          /\ (pc[p] = "unlink" /\ pc'[p] # "unlink") =>
                 \A x \in Paths : fs[x] \notin {NoOwner, p} => fs'[x] = fs[x]
          /\ (pc[p] = "download" /\ pc'[p] = "transcribe") => fs[tmp_path[p]] = p
          /\ (pc[p] = "transcribe" /\ pc'[p] \in {"nospeech", "analyze"}) =>
                 fs[tmp_path[p]] = p]_vars

\* C10 as stated: per message, every reaction label and the marker are
\* added at most once and at most one reply is posted.
C10_OncePerMessage ==
    \A p \in Threads : \A k \in MsgKeys : msg[p][k] <= 1

\* C10 amended: per processed reference, every reaction label and the
\* marker are attempted at most once and at most one reply is posted; per
\* message this holds in qa_bot.py, which runs once per message, while
\* extra.py repeats marker, reactions and reply for every wav file.
C10_OncePerRun ==
    \A p \in Threads :
        /\ \A l \in Labels \cup {HOURGLASS} :
               Cardinality(Calls(p, "reactions_add", l)) <= 1
        /\ Cardinality({ i \in CallsOf(p, "say") : log[p][i].ok }) <= 1
        /\ program = "qa_bot" => \A k \in MsgKeys : msg[p][k] <= 1

\* C10 witness: a message with two wav files got the marker twice, the
\* same grade reaction twice and two replies.
C10_Witness ==
    \E p \in Threads :
        /\ program = "extra" /\ RunOver(p)
        /\ msg[p]["say"] = 2
        /\ msg[p][HOURGLASS] = 2
        /\ msg[p]["yellow_heart"] = 2

\* The calls a run makes besides those that write to Slack.
QuietOps == {"NamedTemporaryFile", "download", "transcribe_wav",
             "analyze_transcript", "logger.exception", "os.unlink"}

\* C11: in log-only mode a run adds no reaction and posts no reply on any
\* path; it only creates, downloads, transcribes, analyzes, logs and deletes.
C11_LogOnlyQuiet ==
    \A p \in Threads :
        ANALYZE_ONLY =>
            /\ \A i \in DOMAIN log[p] : log[p][i].op \in QuietOps
            /\ msg[p] = NoMsg

\* C11 witness: a log-only run has ended on an empty transcript, its temp
\* file created, transcribed and deleted.
C11_Witness ==
    \E p \in Threads :
        /\ ANALYZE_ONLY /\ RunOver(p)
        /\ transcript[p] = 0
        /\ Has(p, Call("transcribe_wav", "", TRUE))
        /\ Has(p, Call("os.unlink", "", TRUE))

Reacted(p) ==
    LET calls == SelectSeq(log[p], LAMBDA c : Rank(c) = 6)
    IN [i \in DOMAIN calls |-> calls[i].arg]

\* C13: whichever grade reactions fail, one add is attempted for every
\* label of the grade set, in order, before the analysis reply is
\* attempted, and the failure path is taken only when that reply raised.
C13_ReactionsBestEffort ==
    \A p \in Threads :
        (CanReply(p) /\ Has(p, Call("analyze_transcript", "", TRUE))) =>
            LET due == extract_grade_emojis(analysis[p], program)
            IN /\ Len(Reacted(p)) <= Len(due)
               /\ Reacted(p) = SubSeq(due, 1, Len(Reacted(p)))
               /\ Calls(p, "say", "analysis") # {} => Reacted(p) = due
               /\ RunOver(p) => Cardinality(Calls(p, "say", "analysis")) = 1
               /\ (\E i \in DOMAIN log[p] : FailureNotice(log[p][i])) =>
                      Has(p, Call("say", "analysis", FALSE))

\* C13 witness: both grade reactions failed and the analysis reply was
\* posted.
C13_Witness ==
    \E p \in Threads :
        /\ RunOver(p)
        /\ Has(p, Call("reactions_add", "heart", FALSE))
        /\ Has(p, Call("reactions_add", "arrow_upper_right", FALSE))
        /\ Has(p, Call("say", "analysis", TRUE))
        /\ ret[p] = "return"

\* The analysis text of the run holds no glyph of the table.
NoGlyph(p) ==
    \A k \in DOMAIN GRADE_EMOJI_MAP(program) :
        ~Occurs(GRADE_EMOJI_MAP(program)[k][1], analysis[p])

\* C14: when the analysis text holds no known glyph no grade reaction is
\* attempted, the analysis reply is attempted right after the analysis,
\* and no failure notice follows unless that reply raised.
C14_IndeterminateGrade ==
    \A p \in Threads :
        (CanReply(p) /\ Has(p, Call("analyze_transcript", "", TRUE)) /\ NoGlyph(p)) =>
            /\ Reacted(p) = << >>
            /\ \A i \in CallsOf(p, "analyze_transcript") :
                   i < Len(log[p]) =>
                       log[p][i + 1].op = "say" /\ log[p][i + 1].arg = "analysis"
            /\ RunOver(p) => Cardinality(Calls(p, "say", "analysis")) = 1
            /\ Has(p, Call("say", "analysis", TRUE)) =>
                   /\ Cardinality(Posted(p)) = 1
                   /\ \A i \in DOMAIN log[p] : ~FailureNotice(log[p][i])

\* C14 witness: the analysis text was a heart without its variation
\* selector; the reply was posted and the run ended normally.
C14_Witness ==
    \E p \in Threads :
        /\ RunOver(p)
        /\ analysis[p] = << "HV", "tx" >>
        /\ Has(p, Call("say", "analysis", TRUE))
        /\ Reacted(p) = << >>
        /\ ret[p] = "return"

\* C15 as stated: the analyzer is never invoked with a transcript of fewer
\* than MIN_USABLE_LEN characters.
C15_ThresholdBeforeAnalysis ==
    \A p \in Threads :
        CallsOf(p, "analyze_transcript") # {} => transcript[p] >= MIN_USABLE_LEN

\* C16 as stated: the failure path is never executed after a grade
\* reaction, the analysis reply or the no-speech notice of the run.
C16_FailedOnlyEarly ==
    \A p \in Threads : \A i, j \in DOMAIN log[p] :
        (i < j /\ FailureNotice(log[p][j])) =>
            Rank(log[p][i]) # 6 /\ log[p][i].op # "say"

\* C16 amended: the failure path is executed exactly when a call of the
\* temp-file creation, download, transcription, analysis, or the post of
\* the analysis reply or of the no-speech notice raised, directly after
\* that call and at most once per run; a failed marker add or reaction
\* never leads to it.
C16_FailureEntry ==
    \A p \in Threads :
        /\ \A j \in DOMAIN log[p] :
               FailureNotice(log[p][j]) <=>
                   /\ j > 1
                   /\ ~log[p][j - 1].ok
                   /\ Fatal(log[p][j - 1])
                   /\ ~FailureNotice(log[p][j - 1])
        /\ Cardinality({ j \in DOMAIN log[p] : FailureNotice(log[p][j]) }) <= 1
        /\ RunOver(p) =>
               \A i \in DOMAIN log[p] :
                   (~log[p][i].ok /\ Fatal(log[p][i])) => i < Len(log[p])

\* C16 witness: a grade reaction was added, the post of the analysis reply
\* raised, and the error notice was posted.
C16_Witness ==
    \E p \in Threads :
        /\ RunOver(p)
        /\ Added(p) # {}
        /\ Has(p, Call("say", "analysis", FALSE))
        /\ Has(p, Call("say", "error", TRUE))

\* Positions of a handler inside a run, before its cleanup.
Running == {"ack", "mktemp", "download", "transcribe", "nospeech", "analyze",
            "react", "reply", "except"}

\* C17: every started run reaches its cleanup and then its end, and the
\* handler returns to the listener.
C17_RunTerminates ==
    \A p \in Threads :
        /\ (pc[p] \in Running) ~> (pc[p] = "unlink")
        /\ (pc[p] = "unlink") ~> (pc[p] \in {"for", "idle"})
        /\ (pc[p] # "idle") ~> (pc[p] = "idle")

\* C17 witness: a run that analyzed its transcript is over, its temp file
\* created and deleted.
C17_Witness ==
    \E p \in Threads :
        /\ pc[p] = "for"
        /\ tmp_path[p] # NoPath
        /\ analysis[p] # << >>
        /\ \A x \in Paths : fs[x] = NoOwner

\* C18: a run issues at most one download and at most one analysis call,
\* on every path.
C18_NoRetry ==
    \A p \in Threads :
        /\ Cardinality(CallsOf(p, "download")) <= 1
        /\ Cardinality(CallsOf(p, "analyze_transcript")) <= 1

\* C18 witness: a run whose download failed is over, after one download
\* call.
C18_Witness ==
    \E p \in Threads :
        /\ RunOver(p)
        /\ Has(p, Call("download", "", FALSE))
        /\ Cardinality(CallsOf(p, "download")) = 1

\* The recognized texts of the chunks, in chunk order.
Recognized(chunks) ==
    LET rec == SelectSeq(chunks, LAMBDA c : c.kind = "text")
    IN [n \in DOMAIN rec |-> rec[n].text]

\* Index in the joined text at which the n-th recognized text starts, with
\* one separator between consecutive texts.
RECURSIVE Offset(_, _)
Offset(ts, n) == IF n = 1 THEN 1 ELSE Offset(ts, n - 1) + Len(ts[n - 1]) + 1

\* The texts laid out one after the other, a single space in between.
Joined(ts) ==
    IF ts = << >> THEN << >>
    ELSE [k \in 1..(Offset(ts, Len(ts)) + Len(ts[Len(ts)]) - 1) |->
            IF \E n \in DOMAIN ts : k - Offset(ts, n) + 1 \in DOMAIN ts[n]
            THEN LET n == CHOOSE m \in DOMAIN ts : k - Offset(ts, m) + 1 \in DOMAIN ts[m]
                 IN ts[n][k - Offset(ts, n) + 1]
            ELSE " "]

\* The text from its first to its last character that is not a space.
Trimmed(str) ==
    LET inked == { k \in DOMAIN str : str[k] # " " }
    IN IF inked = {} THEN << >>
       ELSE SubSeq(str, CHOOSE k \in inked : \A m \in inked : k <= m,
                        CHOOSE k \in inked : \A m \in inked : k >= m)

\* C19: when the recognizer raises nothing but 'unrecognized', both loops
\* return the recognized texts in chunk order with single spaces in
\* between, trimmed; unrecognized chunks add nothing, and without any
\* recognized chunk the result is the empty string.
C19_ChunksJoined ==
    (t_out.extra # NotRun /\ \A i \in DOMAIN t_chunks : t_chunks[i].kind # "error") =>
        /\ t_out.extra = Trimmed(Joined(Recognized(t_chunks)))
        /\ t_out.main = t_out.extra
        /\ Recognized(t_chunks) = << >> => t_out.extra = << >>

\* C19 witness: two recognized chunks around an unrecognized one.
C19_Witness ==
    /\ t_chunks = << [kind |-> "text", text |-> << "a", " ", "b" >>],
                     [kind |-> "unknown", text |-> << >>],
                     [kind |-> "text", text |-> << "b", " " >>] >>
    /\ t_out.extra = << "a", " ", "b", " ", "b" >>
    /\ t_out.main = << "a", " ", "b", " ", "b" >>

\* --------------------------------------------------------------- C20
\* Position k of the text holds ".wav" in any letter case.
WavAt(text, k) == text[k] \in {"W", "V"}

\* A wrapped link opens at i and its URL runs from i + 1 to j: "<", the
\* scheme, at least one more character, ".wav" last, then "|" or ">",
\* neither of which occurs in the URL.
LinkAt(text, i, j) ==
    /\ i + 3 <= j /\ j < Len(text)
    /\ text[i] = "<" /\ text[i + 1] = "H"
    /\ WavAt(text, j) /\ text[j + 1] \in {"|", ">"}
    /\ \A k \in (i + 1)..j : text[k] \notin {"|", ">"}

\* A bare URL runs from i to j: the scheme, at least one more character,
\* ".wav" last, no whitespace or markup inside, and the text or the URL
\* characters end after j.
BareAt(text, i, j) ==
    /\ i + 2 <= j /\ j <= Len(text)
    /\ text[i] = "H" /\ WavAt(text, j)
    /\ \A k \in i..j : text[k] \notin {"_", "<", ">", "|"}
    /\ j = Len(text) \/ text[j + 1] \in {"_", "<", ">", "|"}

\* The spans <<first, last>> of the outermost occurrences, in text order;
\* an occurrence that starts inside another one does not count.
Outermost(text, At(_, _, _), shift) ==
    LET ends(i) == { j \in 1..Len(text) : At(text, i, j) }
        outer(i) == ends(i) # {} /\ \A h \in 1..(i - 1) : ends(h) \cap ends(i) = {}
        starts == SelectSeq([i \in 1..Len(text) |-> i], outer)
    IN [n \in DOMAIN starts |->
           << starts[n] + shift, CHOOSE j \in ends(starts[n]) : TRUE >>]

WrappedLinks(text) == Outermost(text, LinkAt, 1)
BareUrls(text) == Outermost(text, BareAt, 0)

\* C20 (as stated): if the text holds a wrapped link whose URL ends in
\* .wav, extract_wav_urls returns exactly the URLs of those links in text
\* order; otherwise it returns every bare http(s) URL ending in .wav in
\* text order; a text without ".wav" gives the empty list.
C20_PrefersWrapped ==
    u_urls # NotRun =>
        /\ WrappedLinks(u_text) # << >> => u_urls = WrappedLinks(u_text)
        /\ WrappedLinks(u_text) = << >> => u_urls = BareUrls(u_text)
        /\ (\A k \in DOMAIN u_text : ~WavAt(u_text, k)) => u_urls = << >>

\* --------------------------------------------------------------- C21
\* C21: in extra.py and in qa_bot.py every glyph the rubric template tells
\* the model to emit is a key of that script's GRADE_EMOJI_MAP, so an
\* analysis holding an instructed glyph never gives the empty grade list.
C21_RubricCovered ==
    LET table == GRADE_EMOJI_MAP(program)
        rubric == QA_PROMPT_TEMPLATE(program)
    IN /\ \A glyph \in rubric : \E k \in DOMAIN table : table[k][1] = glyph
       /\ (g_found # NotRun /\ \E glyph \in rubric : Occurs(glyph, g_text)) =>
              g_found # << >>

\* C21 witness: the analysis of qa_bot.py holds the "cannot evaluate" cross,
\* a glyph only its rubric names, and the extractor returns its label.
C21_Witness ==
    /\ program = "qa_bot"
    /\ g_text = << "tx", "XM" >>
    /\ g_found = << "x" >>

\* --------------------------------------------------------------- C22
\* The runs of threads a and b met the same outcomes: the same reference,
\* the same result of every call both made, the same transcript and the
\* same analysis text.
SameOutcomes(a, b) ==
    /\ wav_urls[a] # << >> /\ wav_urls[b] # << >>
    /\ Head(wav_urls[a]) = Head(wav_urls[b])
    /\ transcript[a] = transcript[b]
    /\ analysis[a] = analysis[b]
    /\ \A i \in DOMAIN log[a], j \in DOMAIN log[b] :
           (log[a][i].op = log[b][j].op /\ log[a][i].arg = log[b][j].arg) =>
               log[a][i].ok = log[b][j].ok

\* C22 (as stated): the startup replay is the same pipeline as the live
\* path; for the same reference, the same mode and the same outcomes of the
\* external calls, process_latest_message makes the same calls in the same
\* order (stages, reactions, threaded reply) as handle_message.
C22_SamePipeline ==
    \A p \in workers \ {MainThread} :
        (/\ program = "qa_bot" /\ phase = "live"
         /\ RunOver(MainThread) /\ RunOver(p)
         /\ SameOutcomes(MainThread, p)) =>
            log[MainThread] = log[p]

\* --------------------------------------------------------------- C23
\* Files of the list that have a download URL.
WithUrl(files) == { i \in DOMAIN files : files[i].has_url }

Rest(files) == IF files = << >> THEN << >> ELSE Tail(files)

\* C23 (as stated): in extra.py the wav files of a message are processed
\* one after the other in list order, one run per file that has a download
\* URL; a run begins only after the cleanup of the previous one; and the
\* handler is left only when no file with a download URL remains, whatever
\* the outcome of the earlier files.
C23_FilesInSequence ==
    [][\A p \in Threads :
         (program = "extra" /\ pc[p] # "idle") =>
             \* the list shrinks from the front, one file at a time
             /\ wav_files'[p] \in {wav_files[p], Rest(wav_files[p]), << >>}
             \* a file is dropped after its run, or unprocessed when it has no URL
             /\ (wav_files'[p] # wav_files[p] /\ pc'[p] # "idle") =>
                    \/ pc[p] = "unmark"
                    \/ pc[p] = "for" /\ 1 \notin WithUrl(wav_files[p])
             \* a run is that of the first file left and starts with no temp file
             /\ (pc[p] # "ack" /\ pc'[p] = "ack") =>
                    /\ pc[p] = "for" /\ 1 \in WithUrl(wav_files[p])
                    /\ \A x \in Paths : fs[x] # p
             \* the handler is left after the last file with a download URL
             /\ pc'[p] = "idle" =>
                    WithUrl(wav_files[p]) \subseteq (IF pc[p] = "for" THEN {} ELSE {1})
      ]_vars

\* --------------------------------------------------------------- C24
\* The recognizer raised an error other than "unrecognized" on some chunk.
RecognizerFailed == \E i \in DOMAIN t_chunks : t_chunks[i].kind = "error"

\* C24: in chunked transcription only the "unrecognized" outcome is
\* skipped.  When the recognizer raises another error on any chunk, no
\* transcript is returned, whatever was recognized before, the analyzer is
\* not invoked and the failure path is taken, in extra.py and in main.py;
\* when it raises none, a transcript is returned and the failure path is
\* not taken.
C24_OnlyUnknownSkipped ==
    t_out.extra # NotRun =>
        /\ RecognizerFailed =>
               /\ t_out.extra = Raised /\ t_out.main = Raised
               /\ t_out.extra_next = "except" /\ t_out.main_next = "except"
        /\ ~RecognizerFailed =>
               /\ t_out.extra # Raised /\ t_out.main # Raised
               /\ t_out.extra_next \in {"nospeech", "analyze"}
               /\ t_out.main_next \in {"return", "generate"}
               /\ t_out.extra_next = "analyze" <=> t_out.extra # << >>

\* C24 witness: a text was recognized, one chunk was unrecognized, and the
\* recognizer then failed on the last chunk: no transcript, failure path.
C24_Witness ==
    /\ t_chunks = << [kind |-> "text", text |-> << "a" >>],
                    [kind |-> "unknown", text |-> << >>],
                    [kind |-> "error", text |-> << >>] >>
    /\ t_out.extra = Raised
    /\ t_out.extra_next = "except"
    /\ t_out.main_next = "except"

\* --------------------------------------------------------------- C25
\* The messages of the fetched history whose text holds a wav URL.
Holding(history) == { i \in DOMAIN history : extract_wav_urls(history[i]) # << >> }

\* C25: in qa_bot.py a message triggers at most one processing run, that of
\* the first URL extracted from its text: one temp file, one download, one
\* transcription and one analysis at most, whatever the number of URLs.
\* The startup replay processes at most one reference, the first URL of the
\* first message of the fetched history that holds one, and none when no
\* message holds one.
C25_FirstUrlOnly ==
    \A p \in Threads :
        program = "qa_bot" =>
            /\ \A o \in {"NamedTemporaryFile", "download", "transcribe_wav",
                         "analyze_transcript", "say"} :
                   Cardinality(CallsOf(p, o)) <= 1
            /\ (pc[p] # "idle" \/ log[p] # << >>) =>
                   /\ wav_urls[p] # << >>
                   /\ wav_url[p] = wav_urls[p][1]
            /\ (p = MainThread /\ phase = "startup") =>
                   IF Holding(messages) = {}
                   THEN pc[p] = "idle" /\ log[p] = << >> /\ wav_url[p] = NoUrl
                   ELSE LET first == CHOOSE i \in Holding(messages) :
                                         \A j \in Holding(messages) : i <= j
                        IN wav_url[p] = extract_wav_urls(messages[first])[1]

\* C25 witness: a live message with two wav URLs whose run is over after one
\* download, and (second case) a replay whose history holds a message
\* without URL followed by one with two URLs, over after one download.
C25_Witness ==
    \E p \in Threads :
        /\ program = "qa_bot" /\ phase = "live" /\ RunOver(p)
        /\ Len(wav_urls[p]) = 2 /\ wav_url[p] = wav_urls[p][1]
        /\ Cardinality(CallsOf(p, "download")) = 1

C25_WitnessReplay ==
    /\ program = "qa_bot" /\ phase = "startup" /\ RunOver(MainThread)
    /\ Len(messages) = 2 /\ Holding(messages) = {2}
    /\ Len(wav_urls[MainThread]) = 2
    /\ Cardinality(CallsOf(MainThread, "download")) = 1


====
